---- MODULE Spec2Model ----
(***************************************************************************)
(* Model of the aggregation + cache layer of mapa_eleitoral/views.py and   *)
(* of home_view's selection resolution.                                    *)
(*                                                                         *)
(* Python values are modelled as follows: a str is a TLA+ string, None is  *)
(* the reserved string NoneVal (no record field and no request parameter   *)
(* can carry it), a list is a sequence, a dict is a function.              *)
(***************************************************************************)
EXTENDS Integers, Sequences, FiniteSets, TLC

VARIABLES store, cache, files, last, tick, procs

vars == <<store, cache, files, last, tick, procs>>

----------------------------------------------------------------------------
(* Python values *)

NoneVal == "<None>"

\* str(x): str(None) is 'None', a str is itself
Str(x) == IF x = NoneVal THEN "None" ELSE x

\* truth value of a str-or-None: None and '' are falsy
Truthy(x) == x # NoneVal /\ x # ""

\* "_".join(str(arg) for arg in args)
RECURSIVE JoinUnderscore(_)
JoinUnderscore(args) ==
    IF Len(args) = 0 THEN ""
    ELSE IF Len(args) = 1 THEN Str(args[1])
    ELSE Str(args[1]) \o "_" \o JoinUnderscore(Tail(args))

\* hashlib.md5(raw.encode()).hexdigest(): an injective digest of the text
MD5(raw) == "md5(" \o raw \o ")"

generate_safe_cache_key(prefix, args) == prefix \o "_" \o MD5(JoinUnderscore(args))

----------------------------------------------------------------------------
(* Ordering of strings (order_by): the code points of the strings used *)

StrOrder == <<"", "2020", "2024", "CRIVELLA", "Centro", "PAES", "PRB", "PSD",
              "ZonaSul", "all">>

Rank(s) == CHOOSE i \in DOMAIN StrOrder : StrOrder[i] = s

RECURSIVE SortAsc(_)
SortAsc(S) ==
    IF S = {} THEN <<>>
    ELSE LET m == CHOOSE x \in S : \A y \in S : Rank(x) <= Rank(y)
         IN  <<m>> \o SortAsc(S \ {m})

RECURSIVE SortDesc(_)
SortDesc(S) ==
    IF S = {} THEN <<>>
    ELSE LET m == CHOOSE x \in S : \A y \in S : Rank(x) >= Rank(y)
         IN  <<m>> \o SortDesc(S \ {m})

Elems(seq) == {seq[i] : i \in DOMAIN seq}

\* d[k] = v on a dict
Put(d, k, v) == [x \in DOMAIN d \cup {k} |-> IF x = k THEN v ELSE d[x]]

RECURSIVE SumSeq(_)
SumSeq(seq) == IF Len(seq) = 0 THEN 0 ELSE Head(seq) + SumSeq(Tail(seq))

RECURSIVE SumDict(_)
SumDict(d) ==
    IF DOMAIN d = {} THEN 0
    ELSE LET k == CHOOSE x \in DOMAIN d : TRUE
         IN  d[k] + SumDict([x \in DOMAIN d \ {k} |-> d[x]])

----------------------------------------------------------------------------
(* Record Store: the rows of table eleicoes_rio (DadoEleitoral); the store *)
(* is a sequence of rows, a row's position standing for its primary key.   *)

Anos       == {"2020", "2024"}
Partidos   == {"PRB", "PSD"}
Candidatos == {"CRIVELLA", "PAES"}
Bairros    == {"Centro", "ZonaSul"}
MaxVotos   == 1
MaxRows    == 3

\* a qt_votos value: Decimal(n) is <<n>>, a NULL / non-numeric value is <<>>
Decimal(n) == <<n>>
NullVotos  == <<>>
QtVotos    == {Decimal(n) : n \in 0..MaxVotos} \cup {NullVotos}

DadoEleitoral(ano, partido, candidato, bairro, votos) ==
    [ano_eleicao |-> ano, sg_partido |-> partido, nm_urna_candidato |-> candidato,
     nm_bairro |-> bairro, qt_votos |-> votos, ds_cargo |-> "Prefeito"]

\* rows of one (year, party) with free candidate, neighbourhood and vote count
AggRows ==
    {DadoEleitoral("2024", "PSD", c, b, v) :
        c \in Candidatos, b \in Bairros, v \in QtVotos}

AggStores == UNION {[1..n -> AggRows] : n \in 0..MaxRows}

\* the rows the stores of the request-level specifications are made of
SysRows ==
    {DadoEleitoral("2024", "PRB", "CRIVELLA", "Centro", Decimal(1)),
     DadoEleitoral("2024", "PSD", "PAES", "Centro", Decimal(1)),
     DadoEleitoral("2020", "PSD", "PAES", "Centro", Decimal(1))}

RECURSIVE SeqOfRows(_)
SeqOfRows(S) ==
    IF S = {} THEN <<>>
    ELSE LET r == CHOOSE x \in S : TRUE IN <<r>> \o SeqOfRows(S \ {r})

SysStores == {SeqOfRows(S) : S \in SUBSET SysRows}

Rows(st) == {st[i] : i \in DOMAIN st}

----------------------------------------------------------------------------
(* The ORM queries *)

\* DadoEleitoral.objects.values_list('ano_eleicao').distinct().order_by('-ano_eleicao')
QueryAnos(st) == SortDesc({r.ano_eleicao : r \in Rows(st)})

\* [.filter(ano_eleicao=ano) if ano] .values_list('sg_partido').distinct().order_by('sg_partido')
QueryPartidos(st, ano) ==
    SortAsc({r.sg_partido :
        r \in {x \in Rows(st) : Truthy(ano) => x.ano_eleicao = ano}})

\* [.filter(ano_eleicao=ano) if ano] [.filter(sg_partido=partido) if partido]
\* .values_list('nm_urna_candidato').distinct().order_by('nm_urna_candidato')
QueryCandidatos(st, partido, ano) ==
    SortAsc({r.nm_urna_candidato :
        r \in {x \in Rows(st) : /\ Truthy(ano) => x.ano_eleicao = ano
                                /\ Truthy(partido) => x.sg_partido = partido}})

Matches(r, candidato, partido, ano) ==
    /\ r.ano_eleicao = ano
    /\ r.sg_partido = partido
    /\ r.nm_urna_candidato = candidato

RECURSIVE ConcatByBairro(_, _)
ConcatByBairro(bairros, sel) ==
    IF Len(bairros) = 0 THEN <<>>
    ELSE SelectSeq(sel, LAMBDA r : r.nm_bairro = Head(bairros))
         \o ConcatByBairro(Tail(bairros), sel)

\* the query without its sg_partido condition
QueryDados_noparty(st, candidato, partido, ano) ==
    LET sel == SelectSeq(st, LAMBDA r : r.ano_eleicao = ano
                                         /\ r.nm_urna_candidato = candidato)
    IN  ConcatByBairro(SortAsc({r.nm_bairro : r \in Rows(sel)}), sel)

\* .filter(ano_eleicao=ano, sg_partido=partido, nm_urna_candidato=candidato)
\* .values(...).order_by('nm_bairro')
QueryDados(st, candidato, partido, ano) ==
    LET sel == SelectSeq(st, LAMBDA r : Matches(r, candidato, partido, ano))
    IN  ConcatByBairro(SortAsc({r.nm_bairro : r \in Rows(sel)}), sel)

----------------------------------------------------------------------------
(* The cache backend: LocMemCache with MAX_ENTRIES / CULL_FREQUENCY        *)
(* (settings.CACHES).  The cache is the backend's ordered dict: a sequence *)
(* of entries [key, val], the most recently used first; get and set move   *)
(* an entry to the front, _cull pops from the back.  MAX_ENTRIES is scaled *)
(* down from the configured 1000.                                          *)

MAX_ENTRIES    == 3
CULL_FREQUENCY == 3

EmptyCache == <<>>

Keys(c) == {c[i].key : i \in DOMAIN c}

Entry(k, v) == [key |-> k, val |-> v]

Without(c, k) == SelectSeq(c, LAMBDA e : e.key # k)

\* the value held for key k (k is in the cache)
Lookup(c, k) == (CHOOSE i \in DOMAIN c : c[i].key = k)

\* _cull(): everything is dropped when CULL_FREQUENCY is 0, else the
\* len // CULL_FREQUENCY least recently used entries are popped
Cull(c) ==
    IF CULL_FREQUENCY = 0 THEN EmptyCache
    ELSE SubSeq(c, 1, Len(c) - (Len(c) \div CULL_FREQUENCY))

\* cache.set(key, value, timeout): the cache it leaves
\* a set that stores nothing
cache_set_noop(c, k, v) == c

cache_set(c, k, v) ==
    LET c2 == IF Len(c) >= MAX_ENTRIES THEN Cull(c) ELSE c
    IN  <<Entry(k, v)>> \o Without(c2, k)

\* cache.get(key) is None
cache_miss(c, k) == k \notin Keys(c)

\* cache.get(key) on a hit: the value, and the cache with the entry moved up
cache_value(c, k) == c[Lookup(c, k)].val

cache_touch(c, k) == <<c[Lookup(c, k)]>> \o Without(c, k)

----------------------------------------------------------------------------
(* The cached list functions.  Each yields its outcome [cache: the cache   *)
(* it leaves, val: what it returns, q: the number of Record Store queries  *)
(* it issued].                                                             *)

Outcome(c, v, n) == [cache |-> c, val |-> v, q |-> n]

get_cached_anos(c, st) ==
    LET cache_key == "anos_eleicao"
    IN  IF cache_miss(c, cache_key)
        THEN LET anos == QueryAnos(st)
             IN  Outcome(cache_set(c, cache_key, anos), anos, 1)
        ELSE Outcome(cache_touch(c, cache_key), cache_value(c, cache_key), 0)

PartidosKey(ano) ==
    generate_safe_cache_key("partidos", <<IF Truthy(ano) THEN ano ELSE "all">>)

\* "if not partidos" in place of "if partidos is None"
get_cached_partidos_falsy(c, st, ano) ==
    LET cache_key == PartidosKey(ano)
    IN  IF cache_miss(c, cache_key) \/ cache_value(c, cache_key) = <<>>
        THEN LET partidos == QueryPartidos(st, ano)
             IN  Outcome(cache_set(c, cache_key, partidos), partidos, 1)
        ELSE Outcome(cache_touch(c, cache_key), cache_value(c, cache_key), 0)

get_cached_partidos(c, st, ano) ==
    LET cache_key == PartidosKey(ano)
    IN  IF cache_miss(c, cache_key)
        THEN LET partidos == QueryPartidos(st, ano)
             IN  Outcome(cache_set(c, cache_key, partidos), partidos, 1)
        ELSE Outcome(cache_touch(c, cache_key), cache_value(c, cache_key), 0)

CandidatosKey(partido, ano) == generate_safe_cache_key("candidatos", <<partido, ano>>)

get_cached_candidatos(c, st, partido, ano) ==
    LET cache_key == CandidatosKey(partido, ano)
    IN  IF cache_miss(c, cache_key)
        THEN LET candidatos == QueryCandidatos(st, partido, ano)
             IN  Outcome(cache_set(c, cache_key, candidatos), candidatos, 1)
        ELSE Outcome(cache_touch(c, cache_key), cache_value(c, cache_key), 0)

----------------------------------------------------------------------------
(* get_complete_candidate_data *)

\* int(qt_votos) if isinstance(qt_votos, (Decimal, int, float)) else 0
\* a value that is not a number counted as one vote
CoerceVotos_one(v) == IF v # NullVotos THEN v[1] ELSE 1

CoerceVotos(v) == IF v # NullVotos THEN v[1] ELSE 0

AddVotos_overwrite(d, bairro, votos) == Put(d, bairro, votos)

\* votos_dict[bairro] += votos  /  votos_dict[bairro] = votos
AddVotos(d, bairro, votos) ==
    IF bairro \in DOMAIN d
    THEN [d EXCEPT ![bairro] = @ + votos]
    ELSE Put(d, bairro, votos)

\* the loop "for item in dados", from item i on, with the accumulators so far
RECURSIVE AggregateLoop(_, _, _, _)
AggregateLoop(dados, i, votos_dict, total_votos) ==
    IF i > Len(dados)
    THEN [votos_dict |-> votos_dict, total_votos |-> total_votos]
    ELSE LET votos == CoerceVotos(dados[i].qt_votos)
         IN  AggregateLoop(dados, i + 1,
                           AddVotos(votos_dict, dados[i].nm_bairro, votos),
                           total_votos + votos)

EmptyDict == [x \in {} |-> 0]

\* the value built on a miss with rows (lines 142-167)
CompleteData(dados, ano) ==
    LET agg == AggregateLoop(dados, 1, EmptyDict, 0)
    IN  [votos_dict  |-> agg.votos_dict,
         total_votos |-> agg.total_votos,
         candidato_info |->
            [nome  |-> dados[1].nm_urna_candidato,
             cargo |-> dados[1].ds_cargo,
             ano   |-> ano,
             votos_total |-> agg.total_votos]]

\* a key that leaves the candidate out
CompleteKey_nocandidate(candidato, partido, ano) ==
    generate_safe_cache_key("complete_data", <<partido, ano>>)

\* the None that get_complete_candidate_data returns (a dict otherwise)
NoData == [none |-> TRUE]

CompleteKey(candidato, partido, ano) ==
    generate_safe_cache_key("complete_data", <<candidato, partido, ano>>)

\* the function without the early return of lines 138-139: None is stored
get_complete_candidate_data_storenone(c, st, candidato, partido, ano) ==
    LET cache_key == CompleteKey(candidato, partido, ano)
    IN  IF cache_miss(c, cache_key)
        THEN LET dados == QueryDados(st, candidato, partido, ano)
                 cached_data == IF Len(dados) = 0 THEN NoData
                                ELSE CompleteData(dados, ano)
             IN  Outcome(cache_set(c, cache_key, cached_data), cached_data, 1)
        ELSE Outcome(cache_touch(c, cache_key), cache_value(c, cache_key), 0)

get_complete_candidate_data(c, st, candidato, partido, ano) ==
    LET cache_key == CompleteKey(candidato, partido, ano)
    IN  IF cache_miss(c, cache_key)
        THEN LET dados == QueryDados(st, candidato, partido, ano)
             IN  IF Len(dados) = 0
                 THEN Outcome(c, NoData, 1)
                 ELSE LET cached_data == CompleteData(dados, ano)
                      IN  Outcome(cache_set(c, cache_key, cached_data), cached_data, 1)
        ELSE Outcome(cache_touch(c, cache_key), cache_value(c, cache_key), 0)

----------------------------------------------------------------------------
(* Map artifact (generate_static_map_html) *)

STATIC_URL == "/static/"

\* the NOME of each feature of Limite_Bairro.geojson
GeoJson == <<"Centro", "ZonaSul">>

\* what can go wrong during one request: nothing, a Record Store query
\* raising, fl.Choropleth raising, the boundary file missing or malformed,
\* fl.GeoJson raising, mapa.save raising
Faults == {"none", "db", "choropleth", "geojson_file", "geojson_layer", "save"}

load_geojson(c) ==
    LET cache_key == "geojson_data"
    IN  IF cache_miss(c, cache_key)
        THEN Outcome(cache_set(c, cache_key, GeoJson), GeoJson, 0)
        ELSE Outcome(cache_touch(c, cache_key), cache_value(c, cache_key), 0)

(* A dict handed to a map generator is the sequence of its (bairro, votos) *)
(* items in insertion order.  The votos_dict of the aggregation is filled  *)
(* in the order of dados, which is ordered by nm_bairro.                   *)
Items(d) ==
    LET ks == SortAsc(DOMAIN d)
    IN  [i \in DOMAIN ks |-> <<ks[i], d[ks[i]]>>]

ItemKeys(items) == {items[i][1] : i \in DOMAIN items}

\* votos_dict.get(bairro_nome, 0)
DictGet(items, k, default) ==
    IF k \in ItemKeys(items)
    THEN items[CHOOSE i \in DOMAIN items : items[i][1] = k][2]
    ELSE default

\* the items left as they are
SortedItems_unsorted(items) == items

\* sorted(votos_dict.items())
SortedItems(items) ==
    LET ks == SortAsc(ItemKeys(items))
    IN  [j \in DOMAIN ks |-> <<ks[j], DictGet(items, ks[j], 0)>>]

\* md5(f"{str(sorted(votos_dict.items()))}_{total_votos}_{candidato_info}")
DataHash(votos_dict, total_votos, candidato_info) ==
    MD5(ToString(SortedItems(votos_dict)) \o "_" \o ToString(total_votos)
        \o "_" \o ToString(candidato_info))

FileName(votos_dict, total_votos, candidato_info) ==
    DataHash(votos_dict, total_votos, candidato_info) \o ".html"

FileUrl(file_name) == STATIC_URL \o "maps/" \o file_name

\* a number as the fraction num/den
Fraction(num, den) == [num |-> num, den |-> den]

\* the division performed whatever the total
Porcentagem_unguarded(votos, total_votos) ==
    IF total_votos = 0 THEN [raised |-> "ZeroDivisionError"]
    ELSE Fraction(votos * 100, total_votos)

\* (votos / total_votos * 100) if total_votos > 0 else 0
Porcentagem(votos, total_votos) ==
    IF total_votos > 0 THEN Fraction(votos * 100, total_votos)
    ELSE Fraction(0, 1)

\* feature['properties']['tooltip_content'] of one feature
Tooltip(bairro_nome, votos_dict, total_votos) ==
    LET votos == DictGet(votos_dict, bairro_nome, 0)
    IN  [bairro |-> bairro_nome, votos |-> votos,
         porcentagem |-> Porcentagem(votos, total_votos)]

\* the map both generators build: the choropleth layer, when fl.Choropleth
\* did not raise, and one tooltip per feature
\* (the page is taken to be a function of what the code hands to folium;
\* identifiers folium may generate inside the page are not modelled)
RenderMap(votos_dict, total_votos, geojson_data, choropleth) ==
    [choropleth |-> choropleth,
     tooltips   |-> [i \in DOMAIN geojson_data |->
                        Tooltip(geojson_data[i], votos_dict, total_votos)]]

ChoroplethOk(fault) == fault \notin {"choropleth", "geojson_file"}

\* the page of a map as it is written out: one block per layer and tooltip
Html(mapa) ==
    (IF mapa.choropleth THEN <<[layer |-> "choropleth"]>> ELSE <<>>)
    \o mapa.tooltips

\* mapa.save: the file is opened for writing, which creates or empties it,
\* then the page is written from the start of the file
EmptyFile == <<>>

SaveOpen(f, file_name) == Put(f, file_name, EmptyFile)

\* a write at the end of the file
Overlay_append(old, new) == old \o new

\* a write of new at offset 0 of a file holding old
Overlay(old, new) == new \o SubSeq(old, Len(new) + 1, Len(old))

SaveWrite(f, file_name, html) ==
    Put(f, file_name, Overlay(f[file_name], html))

\* the set of outcomes [cache, files, url, rendered, raised] of one call;
\* raised names the step whose exception leaves the function, "" if none
generate_static_map_html(c, f, votos_dict, total_votos, candidato_info, fault) ==
    LET file_name == FileName(votos_dict, total_votos, candidato_info)
        Done(c2, f2, rendered, raised) ==
            [cache |-> c2, files |-> f2, url |-> FileUrl(file_name),
             rendered |-> rendered, raised |-> raised]
    IN  IF file_name \in DOMAIN f THEN {Done(c, f, FALSE, "")}
        ELSE IF fault = "geojson_file" /\ cache_miss(c, "geojson_data")
        THEN {Done(c, f, FALSE, "load_geojson")}
        ELSE LET g    == load_geojson(c)
                 mapa == RenderMap(votos_dict, total_votos, g.val,
                                   ChoroplethOk(fault))
             IN  IF fault = "geojson_layer"
                 THEN {Done(g.cache, f, FALSE, "fl.GeoJson")}
                 ELSE IF fault = "save"
                 THEN {Done(g.cache, f, FALSE, "mapa.save"),
                       Done(g.cache, SaveOpen(f, file_name), FALSE, "mapa.save")}
                 ELSE {Done(g.cache,
                            SaveWrite(SaveOpen(f, file_name), file_name,
                                      Html(mapa)),
                            TRUE, "")}

MapHtmlKey(votos_dict, total_votos, candidato_info) ==
    "map_html_" \o DataHash(votos_dict, total_votos, candidato_info)

\* the generator that keeps the page in the cache
generate_optimized_map_html(c, votos_dict, total_votos, candidato_info) ==
    LET cache_key == MapHtmlKey(votos_dict, total_votos, candidato_info)
    IN  IF cache_miss(c, cache_key)
        THEN LET g        == load_geojson(c)
                 map_html == Html(RenderMap(votos_dict, total_votos, g.val,
                                            TRUE))
             IN  Outcome(cache_set(g.cache, cache_key, map_html), map_html, 0)
        ELSE Outcome(cache_touch(c, cache_key), cache_value(c, cache_key), 0)

----------------------------------------------------------------------------
(* home_view: selection resolution (lines 286-294) *)

DEFAULT_PARTIDO   == "PRB"
DEFAULT_CANDIDATO == "CRIVELLA"

\* request.GET.get('ano', str(anos[0]) if anos else '')
ResolveAno(ano, anos) ==
    IF ano # NoneVal THEN ano
    ELSE IF Len(anos) > 0 THEN Str(anos[1]) ELSE ""

\* request.GET.get('partido', 'PRB' if 'PRB' in partidos else (partidos[0] if partidos else ''))
ResolvePartido(partido, partidos) ==
    IF partido # NoneVal THEN partido
    ELSE IF DEFAULT_PARTIDO \in Elems(partidos) THEN DEFAULT_PARTIDO
    ELSE IF Len(partidos) > 0 THEN partidos[1] ELSE ""

\* the candidate resolved the way the year and the party are
ResolveCandidato_unchecked(candidato, candidatos) ==
    IF candidato # NoneVal THEN candidato
    ELSE IF DEFAULT_CANDIDATO \in Elems(candidatos) THEN DEFAULT_CANDIDATO
    ELSE IF Len(candidatos) > 0 THEN candidatos[1] ELSE ""

\* request.GET.get('candidato', '') and the fallback of lines 293-294
ResolveCandidato(candidato, candidatos) ==
    LET selected_candidato == IF candidato # NoneVal THEN candidato ELSE ""
    IN  IF selected_candidato = "" \/ selected_candidato \notin Elems(candidatos)
        THEN IF DEFAULT_CANDIDATO \in Elems(candidatos) THEN DEFAULT_CANDIDATO
             ELSE IF Len(candidatos) > 0 THEN candidatos[1] ELSE ""
        ELSE selected_candidato

\* if selected_candidato and selected_ano (line 299)
ShouldAggregate(selected_ano, selected_partido, selected_candidato) ==
    selected_candidato # "" /\ selected_ano # ""

\* candidato_info = {} (line 297)
NoInfo == [empty |-> TRUE]

----------------------------------------------------------------------------
(* State: store is the Record Store, cache the LocMemCache entries, files  *)
(* the content of static/maps, last the most recent call with what it      *)
(* returned, tick a bit flipped by every call.                             *)

\* argument values of the direct calls
AnoValues == {NoneVal, "", "all"} \cup Anos

\* values of the 'ano', 'partido' and 'candidato' request parameters
\* (NoneVal: the parameter is absent)
ReqAnos       == {NoneVal, "", "all", "2020"}
ReqPartidos   == {NoneVal, "", "PSD"}
ReqCandidatos == {NoneVal, "", "PAES"}

NoFiles == [x \in {} |-> 0]

\* no request is part-way through a function
NoProcs == <<>>

InitRest ==
    /\ cache = EmptyCache
    /\ files = NoFiles
    /\ last = [op |-> "none"]
    /\ tick = 0
    /\ procs = NoProcs

Init == store \in SysStores /\ InitRest

InitAgg == store \in AggStores /\ InitRest

Return(c, f, l) ==
    /\ cache' = c
    /\ files' = f
    /\ last' = l
    /\ tick' = 1 - tick
    /\ UNCHANGED <<store, procs>>

\* what a direct call did: its result, the number of queries it issued and
\* the keys of the entries the backend evicted during it
CallResult(name, args, o) ==
    [op |-> name, args |-> args, result |-> o.val, queries |-> o.q,
     evicted |-> Keys(cache) \ Keys(o.cache)]

CallAnos ==
    \E o \in {get_cached_anos(cache, store)} :
        Return(o.cache, files, CallResult("get_cached_anos", <<>>, o))

CallPartidos(ano) ==
    \E o \in {get_cached_partidos(cache, store, ano)} :
        Return(o.cache, files, CallResult("get_cached_partidos", <<ano>>, o))

CallCandidatos(partido, ano) ==
    \E o \in {get_cached_candidatos(cache, store, partido, ano)} :
        Return(o.cache, files,
               CallResult("get_cached_candidatos", <<partido, ano>>, o))

CallComplete(candidato, partido, ano) ==
    \E o \in {get_complete_candidate_data(cache, store, candidato, partido, ano)} :
        Return(o.cache, files,
               CallResult("get_complete_candidate_data",
                          <<candidato, partido, ano>>, o))

\* the context home_view renders, with what the request did
Context(args, fault, anos, partidos, candidatos, sa, sp, sc, info, url, called, data, rendered, n) ==
    [op |-> "home_view", args |-> args, fault |-> fault, status |-> 200,
     anos |-> anos, partidos |-> partidos, candidatos |-> candidatos,
     selected_ano |-> sa, selected_partido |-> sp, selected_candidato |-> sc,
     candidato_info |-> info, map_url |-> url,
     agg_called |-> called, complete_data |-> data, rendered |-> rendered,
     queries |-> n]

\* an exception left home_view: the framework answers with a server error
ServerError(args, fault, raised) ==
    [op |-> "home_view", args |-> args, fault |-> fault, status |-> 500,
     raised |-> raised]

\* a Record Store query raises, before the cache.set that follows it
QueryFails(fault, o) == fault = "db" /\ o.q > 0

home_view(ano, partido, candidato, fault) ==
    LET args == <<ano, partido, candidato>>
        Fail(c, f, raised) == Return(c, f, ServerError(args, fault, raised))
    IN
    \E o1 \in {get_cached_anos(cache, store)} :
    IF QueryFails(fault, o1) THEN Fail(cache, files, "get_cached_anos") ELSE
    \E selected_ano \in {ResolveAno(ano, o1.val)} :
    \E o2 \in {get_cached_partidos(o1.cache, store, selected_ano)} :
    IF QueryFails(fault, o2) THEN Fail(o1.cache, files, "get_cached_partidos") ELSE
    \E selected_partido \in {ResolvePartido(partido, o2.val)} :
    \E o3 \in {get_cached_candidatos(o2.cache, store, selected_partido, selected_ano)} :
    IF QueryFails(fault, o3) THEN Fail(o2.cache, files, "get_cached_candidatos") ELSE
    \E selected_candidato \in {ResolveCandidato(candidato, o3.val)} :
    LET Ctx(info, url, called, data, rendered, n) ==
            Context(args, fault, o1.val, o2.val, o3.val,
                    selected_ano, selected_partido, selected_candidato,
                    info, url, called, data, rendered,
                    o1.q + o2.q + o3.q + n)
    IN
    IF ShouldAggregate(selected_ano, selected_partido, selected_candidato)
    THEN \E o4 \in {get_complete_candidate_data(o3.cache, store,
                        selected_candidato, selected_partido, selected_ano)} :
         IF QueryFails(fault, o4)
         THEN Fail(o3.cache, files, "get_complete_candidate_data") ELSE
         LET complete_data == o4.val
         IN  IF complete_data # NoData
             THEN IF DOMAIN complete_data.votos_dict # {}
                  THEN \E m \in generate_static_map_html(o4.cache, files,
                                     Items(complete_data.votos_dict),
                                     complete_data.total_votos,
                                     complete_data.candidato_info, fault) :
                           IF m.raised # ""
                           THEN Fail(m.cache, m.files, m.raised)
                           ELSE Return(m.cache, m.files,
                                       Ctx(complete_data.candidato_info, m.url,
                                           TRUE, complete_data, m.rendered,
                                           o4.q))
                  ELSE Return(o4.cache, files,
                              Ctx(complete_data.candidato_info, "",
                                  TRUE, complete_data, FALSE, o4.q))
             ELSE Return(o4.cache, files,
                         Ctx(NoInfo, "", TRUE, NoData, FALSE, o4.q))
    ELSE Return(o3.cache, files, Ctx(NoInfo, "", FALSE, NoData, FALSE, 0))

\* an entry's timeout (CACHE_TIMES) has passed: the backend drops it
Expire(k) ==
    /\ k \in Keys(cache)
    /\ cache' = Without(cache, k)
    /\ UNCHANGED <<store, files, last, tick, procs>>

\* a JsonResponse of an administrative view
AdminResponse(name, is_superuser, status, body) ==
    [op |-> name, args |-> <<is_superuser>>, status |-> status, body |-> body]

\* the clear without the is_superuser test
clear_cache_view_open(is_superuser) ==
    Return(EmptyCache, files,
           AdminResponse("clear_cache_view", is_superuser, 200, "success"))

clear_cache_view(is_superuser) ==
    IF ~is_superuser
    THEN Return(cache, files,
                AdminResponse("clear_cache_view", is_superuser, 403, "error"))
    ELSE Return(EmptyCache, files,
                AdminResponse("clear_cache_view", is_superuser, 200, "success"))

\* get_cache_stats collects nothing: the three initial values are returned
cache_stats_view(is_superuser) ==
    IF ~is_superuser
    THEN Return(cache, files,
                AdminResponse("cache_stats_view", is_superuser, 403, "error"))
    ELSE Return(cache, files,
                AdminResponse("cache_stats_view", is_superuser, 200, "stats"))

\* the cache layer: the cached functions called with any arguments
Next ==
    \/ CallAnos
    \/ \E ano \in AnoValues : CallPartidos(ano)
    \/ \E partido \in Partidos, ano \in {"2024"} : CallCandidatos(partido, ano)
    \/ \E candidato \in Candidatos, partido \in Partidos, ano \in {"2024"} :
          CallComplete(candidato, partido, ano)
    \/ \E k \in Keys(cache) : Expire(k)
    \/ \E is_superuser \in BOOLEAN : clear_cache_view(is_superuser)
    \/ \E is_superuser \in BOOLEAN : cache_stats_view(is_superuser)

Spec == Init /\ [][Next]_vars

\* page requests: entries leave the cache by eviction and by the clear
NextHome ==
    \/ \E ano \in ReqAnos, partido \in ReqPartidos, candidato \in ReqCandidatos :
          home_view(ano, partido, candidato, "none")
    \/ \E is_superuser \in BOOLEAN : clear_cache_view(is_superuser)

SpecHome == Init /\ [][NextHome]_vars

\* page requests during which a dependency fails
NextFault ==
    \/ \E partido \in {NoneVal, "PSD"}, fault \in Faults :
          home_view(NoneVal, partido, NoneVal, fault)
    \/ \E k \in Keys(cache) : Expire(k)

SpecFault == Init /\ [][NextFault]_vars

\* the aggregation over every store of AggStores
NextAgg ==
    \/ \E candidato \in Candidatos, partido \in {"PSD"}, ano \in {"2024"} :
          CallComplete(candidato, partido, ano)
    \/ \E k \in Keys(cache) : Expire(k)
    \/ \E is_superuser \in BOOLEAN : clear_cache_view(is_superuser)

SpecAgg == InitAgg /\ [][NextAgg]_vars

\* the records of the Record Store change (an import, a correction)
StoreChange(st) ==
    /\ st # store
    /\ store' = st
    /\ UNCHANGED <<cache, files, last, tick, procs>>

\* the cached functions over a Record Store that changes
NextStale ==
    \/ CallAnos
    \/ \E ano \in {"2024"} : CallPartidos(ano)
    \/ \E candidato \in {"PAES"}, partido \in {"PSD"}, ano \in {"2024"} :
          CallComplete(candidato, partido, ano)
    \/ \E st \in SysStores : StoreChange(st)
    \/ \E k \in Keys(cache) : Expire(k)
    \/ \E is_superuser \in {TRUE} : clear_cache_view(is_superuser)

SpecStale == Init /\ [][NextStale]_vars

\* the list functions called with arguments whose text coincides once
\* joined: None and 'all' for the year, None and 'None' for the party
NextKeys ==
    \/ \E ano \in {NoneVal, "all", "2024"} : CallPartidos(ano)
    \/ \E partido \in {NoneVal, "None", "PSD"}, ano \in {"2024"} :
          CallCandidatos(partido, ano)
    \/ \E k \in Keys(cache) : Expire(k)

SpecKeys == Init /\ [][NextKeys]_vars

----------------------------------------------------------------------------
(* The map generators called by two requests at once.  A request p is at   *)
(* procs[p].pc inside generate_static_map_html: "check" before line 515,   *)
(* "render" before the map is built, "open" and "write" inside mapa.save,  *)
(* "done" once the URL is returned.  generate_optimized_map_html runs in   *)
(* one step.                                                               *)

MaxTotal == 1

GenProcs == {1, 2}

\* the dicts a generator can be handed: every insertion order of every
\* mapping of neighbourhoods to vote counts
MapItems ==
    {s \in UNION {[1..n -> Bairros \X (0..MaxVotos)] :
                     n \in 0..Cardinality(Bairros)} :
        \A i, j \in DOMAIN s : i # j => s[i][1] # s[j][1]}

MapInfo(total_votos) ==
    [nome |-> "PAES", cargo |-> "Prefeito", ano |-> "2024",
     votos_total |-> total_votos]

GenCall(fn, votos_dict, total_votos) ==
    [pc |-> "check", fn |-> fn, votos_dict |-> votos_dict,
     total_votos |-> total_votos, candidato_info |-> MapInfo(total_votos),
     html |-> <<>>, url |-> "", rendered |-> FALSE]

GenCalls(fns) ==
    {GenCall(fn, d, t) : fn \in fns, d \in MapItems, t \in 0..MaxTotal}

InitMap ==
    /\ store = <<>>
    /\ cache = EmptyCache
    /\ files = NoFiles
    /\ last = [op |-> "none"]
    /\ tick = 0
    /\ procs \in {<<c1, c2>> : c1 \in GenCalls({"static", "optimized"}),
                               c2 \in GenCalls({"static"})}

GenFileName(p) ==
    FileName(procs[p].votos_dict, procs[p].total_votos, procs[p].candidato_info)

GenStep(p, fn, pc) == procs[p].fn = fn /\ procs[p].pc = pc

GenGoto(p, changes) ==
    /\ procs' = [procs EXCEPT ![p] = changes @@ procs[p]]
    /\ UNCHANGED <<store, last, tick>>

\* lines 504-515: the name of the file, and whether it is there
GenCheck(p) ==
    /\ GenStep(p, "static", "check")
    /\ IF GenFileName(p) \in DOMAIN files
       THEN GenGoto(p, [pc |-> "done", url |-> FileUrl(GenFileName(p))])
       ELSE GenGoto(p, [pc |-> "render"])
    /\ UNCHANGED <<cache, files>>

\* lines 516-588: the map is built
GenRender(p) ==
    /\ GenStep(p, "static", "render")
    /\ \E g \in {load_geojson(cache)} :
          /\ cache' = g.cache
          /\ GenGoto(p, [pc |-> "open",
                         html |-> Html(RenderMap(procs[p].votos_dict,
                                                 procs[p].total_votos,
                                                 g.val, TRUE))])
    /\ UNCHANGED files

\* line 589, mapa.save opens the file
GenOpen(p) ==
    /\ GenStep(p, "static", "open")
    /\ files' = SaveOpen(files, GenFileName(p))
    /\ GenGoto(p, [pc |-> "write"])
    /\ UNCHANGED cache

\* lines 589-593, mapa.save writes the page; the URL is returned
GenWrite(p) ==
    /\ GenStep(p, "static", "write")
    /\ files' = SaveWrite(files, GenFileName(p), procs[p].html)
    /\ GenGoto(p, [pc |-> "done", url |-> FileUrl(GenFileName(p)),
                   rendered |-> TRUE])
    /\ UNCHANGED cache

GenOptimized(p) ==
    /\ GenStep(p, "optimized", "check")
    /\ \E o \in {generate_optimized_map_html(cache, procs[p].votos_dict,
                     procs[p].total_votos, procs[p].candidato_info)} :
          /\ cache' = o.cache
          /\ GenGoto(p, [pc |-> "done", html |-> o.val,
                         rendered |-> cache_miss(cache,
                             MapHtmlKey(procs[p].votos_dict,
                                        procs[p].total_votos,
                                        procs[p].candidato_info))])
    /\ UNCHANGED files

NextMap ==
    \/ \E p \in GenProcs : GenCheck(p)
    \/ \E p \in GenProcs : GenRender(p)
    \/ \E p \in GenProcs : GenOpen(p)
    \/ \E p \in GenProcs : GenWrite(p)
    \/ \E p \in GenProcs : GenOptimized(p)

SpecMap == InitMap /\ [][NextMap]_vars

----------------------------------------------------------------------------
(* The cached functions called by two requests at once: cache.get, the     *)
(* Record Store query and cache.set are separate steps of a request, each  *)
(* atomic.  A request p is at procs[p].pc: "idle", "get", "query", "set",  *)
(* "done".                                                                 *)

ConcProcs == {1, 2}

ConcCalls ==
    {[fn |-> "get_cached_partidos", args |-> <<ano>>] :
        ano \in {"", "all", "2024"}}
    \cup {[fn |-> "get_complete_candidate_data", args |-> <<c, "PSD", "2024">>] :
             c \in {"PAES"}}

ConcKey(call) ==
    IF call.fn = "get_cached_partidos" THEN PartidosKey(call.args[1])
    ELSE CompleteKey(call.args[1], call.args[2], call.args[3])

\* the party list computed without its year filter
ConcCompute_unfiltered(call, st) ==
    IF call.fn = "get_cached_partidos" THEN QueryPartidos(st, NoneVal)
    ELSE LET dados == QueryDados(st, call.args[1], call.args[2], call.args[3])
         IN  IF Len(dados) = 0 THEN NoData
             ELSE CompleteData(dados, call.args[3])

\* what the function computes on a miss (lines 79-88, 127-167)
ConcCompute(call, st) ==
    IF call.fn = "get_cached_partidos" THEN QueryPartidos(st, call.args[1])
    ELSE LET dados == QueryDados(st, call.args[1], call.args[2], call.args[3])
         IN  IF Len(dados) = 0 THEN NoData
             ELSE CompleteData(dados, call.args[3])

ConcIdle == [pc |-> "idle"]

InitConc ==
    /\ store \in SysStores
    /\ cache = EmptyCache
    /\ files = NoFiles
    /\ last = [op |-> "none"]
    /\ tick = 0
    /\ procs = [p \in ConcProcs |-> ConcIdle]

ConcGoto(p, state) ==
    /\ procs' = [procs EXCEPT ![p] = state]
    /\ UNCHANGED <<store, files, last, tick>>

\* a request enters one of the functions
ConcCall(p, call) ==
    /\ procs[p].pc = "idle"
    /\ ConcGoto(p, [pc |-> "get", call |-> call])
    /\ UNCHANGED cache

\* cache.get(cache_key); a hit is returned
ConcGet(p) ==
    /\ procs[p].pc = "get"
    /\ LET cache_key == ConcKey(procs[p].call)
       IN  IF cache_miss(cache, cache_key)
           THEN /\ ConcGoto(p, [pc |-> "query", call |-> procs[p].call])
                /\ UNCHANGED cache
           ELSE /\ ConcGoto(p, [pc |-> "done", call |-> procs[p].call,
                                result |-> cache_value(cache, cache_key)])
                /\ cache' = cache_touch(cache, cache_key)

\* the query and what is built from it; None is returned without a set
ConcQuery(p) ==
    /\ procs[p].pc = "query"
    /\ \E v \in {ConcCompute(procs[p].call, store)} :
          IF procs[p].call.fn = "get_complete_candidate_data" /\ v = NoData
          THEN ConcGoto(p, [pc |-> "done", call |-> procs[p].call, result |-> v])
          ELSE ConcGoto(p, [pc |-> "set", call |-> procs[p].call, val |-> v])
    /\ UNCHANGED cache

\* cache.set(cache_key, ...); the value is returned
ConcSet(p) ==
    /\ procs[p].pc = "set"
    /\ cache' = cache_set(cache, ConcKey(procs[p].call), procs[p].val)
    /\ ConcGoto(p, [pc |-> "done", call |-> procs[p].call,
                    result |-> procs[p].val])

\* the request is over
ConcReturn(p) ==
    /\ procs[p].pc = "done"
    /\ ConcGoto(p, ConcIdle)
    /\ UNCHANGED cache

NextConc ==
    \/ \E p \in ConcProcs, call \in ConcCalls : ConcCall(p, call)
    \/ \E p \in ConcProcs : ConcGet(p)
    \/ \E p \in ConcProcs : ConcQuery(p)
    \/ \E p \in ConcProcs : ConcSet(p)
    \/ \E p \in ConcProcs : ConcReturn(p)
    \/ \E k \in Keys(cache) : Expire(k)

SpecConc == InitConc /\ [][NextConc]_vars

----------------------------------------------------------------------------
(* Vocabulary of the properties *)

IsCall(name) == last.op = name

ListOps == {"get_cached_anos", "get_cached_partidos", "get_cached_candidatos"}

\* the cache key a recorded list call used
CallKey(l) ==
    IF l.op = "get_cached_anos" THEN "anos_eleicao"
    ELSE IF l.op = "get_cached_partidos" THEN PartidosKey(l.args[1])
    ELSE CandidatosKey(l.args[1], l.args[2])

\* the raw records of the store matching a (candidate, party, year) triple
MatchingRows(candidato, partido, ano) ==
    SelectSeq(store, LAMBDA r : Matches(r, candidato, partido, ano))

\* the vote count of a raw record (a NULL counts for nothing, as in SQL's SUM)
VoteCount(r) == IF r.qt_votos = NullVotos THEN 0 ELSE r.qt_votos[1]

RawSum(rows) == SumSeq([i \in DOMAIN rows |-> VoteCount(rows[i])])

----------------------------------------------------------------------------
(* C1: on a cache miss with at least one matching row,                     *)
(* get_complete_candidate_data returns a votos_dict whose keys are exactly *)
(* the neighbourhoods of the matching rows, each mapped to the sum of the  *)
(* vote counts of all matching rows of that neighbourhood.                 *)
C1_VotosPerBairro ==
    (IsCall("get_complete_candidate_data") /\ last.queries = 1) =>
        LET rows == MatchingRows(last.args[1], last.args[2], last.args[3])
        IN  Len(rows) > 0 =>
              /\ last.result # NoData
              /\ DOMAIN last.result.votos_dict = {r.nm_bairro : r \in Rows(rows)}
              /\ \A b \in DOMAIN last.result.votos_dict :
                    last.result.votos_dict[b] =
                        RawSum(SelectSeq(rows, LAMBDA r : r.nm_bairro = b))

\* rows Centro 1, Centro 1, ZonaSul 1 give {Centro: 2, ZonaSul: 1}
C1_Witness ==
    /\ IsCall("get_complete_candidate_data")
    /\ last.queries = 1
    /\ Len(MatchingRows(last.args[1], last.args[2], last.args[3])) = 3
    /\ last.result # NoData
    /\ last.result.votos_dict = ("Centro" :> 2 @@ "ZonaSul" :> 1)

(* C2: the values of the returned neighbourhood mapping add up to the sum  *)
(* of the vote counts of all raw records matching the triple (and no       *)
(* mapping is returned only when nothing matches).                         *)
C2_RoundTrip ==
    IsCall("get_complete_candidate_data") =>
        LET rows == MatchingRows(last.args[1], last.args[2], last.args[3])
        IN  IF last.result = NoData
            THEN Len(rows) = 0
            ELSE SumDict(last.result.votos_dict) = RawSum(rows)

\* a result served from the cache, the total of three rows
C2_Witness ==
    /\ IsCall("get_complete_candidate_data")
    /\ last.queries = 0
    /\ last.result # NoData
    /\ Len(MatchingRows(last.args[1], last.args[2], last.args[3])) = 3
    /\ SumDict(last.result.votos_dict) = 3

(* C3: two calls of get_complete_candidate_data with identical arguments,  *)
(* the first on a cold key and nothing in between, return identical        *)
(* results and together issue exactly one Record Store query.              *)
C3_TwoCallsOneQuery ==
    [][(/\ tick' # tick
        /\ last.op = "get_complete_candidate_data"
        /\ last.queries = 1
        /\ last'.op = "get_complete_candidate_data"
        /\ last'.args = last.args)
       => (last'.result = last.result /\ last.queries + last'.queries = 1)]_vars

C5_UnknownYearHasNoParties ==
    (/\ IsCall("get_cached_partidos")
     /\ Truthy(last.args[1])
     /\ last.args[1] \notin {r.ano_eleicao : r \in Rows(store)})
    => last.result = <<>>

(* C6: when no record matches the resolved triple, the aggregation home_view *)
(* calls returns None and the page has an empty map_url and an empty         *)
(* candidato_info.                                                           *)
C6_NoDataGivesEmptyPage ==
    (/\ IsCall("home_view")
     /\ last.agg_called
     /\ Len(MatchingRows(last.selected_candidato, last.selected_partido,
                         last.selected_ano)) = 0)
    => /\ last.complete_data = NoData
       /\ last.map_url = ""
       /\ last.candidato_info = NoInfo

C6_Witness ==
    /\ IsCall("home_view")
    /\ last.agg_called
    /\ last.complete_data = NoData
    /\ last.map_url = ""
    /\ Len(store) > 0

(* C7: the resolved year is the supplied 'ano' if it is in the year list,  *)
(* else the first (most recent) year of the list.                          *)
C7_YearResolution ==
    IsCall("home_view") =>
        last.selected_ano =
            IF last.args[1] \in Elems(last.anos) THEN last.args[1]
            ELSE IF Len(last.anos) > 0 THEN last.anos[1] ELSE ""

(* C8: the resolved party is the supplied 'partido' if it is in the party  *)
(* list of the resolved year, else the default party if listed, else the   *)
(* first party of the list, else ''.                                       *)
C8_PartyResolution ==
    IsCall("home_view") =>
        last.selected_partido =
            IF last.args[2] \in Elems(last.partidos) THEN last.args[2]
            ELSE IF DEFAULT_PARTIDO \in Elems(last.partidos) THEN DEFAULT_PARTIDO
            ELSE IF Len(last.partidos) > 0 THEN last.partidos[1] ELSE ""

(* C9: the resolved candidate is the supplied 'candidato' if it is in the  *)
(* candidate list of the resolved (party, year), else the default          *)
(* candidate if listed, else the first of the list, else ''; so a          *)
(* non-empty resolved candidate is a member of the list in the context.    *)
C9_CandidateResolution ==
    IsCall("home_view") =>
        /\ last.selected_candidato =
              IF last.args[3] \in Elems(last.candidatos) THEN last.args[3]
              ELSE IF DEFAULT_CANDIDATO \in Elems(last.candidatos)
                   THEN DEFAULT_CANDIDATO
              ELSE IF Len(last.candidatos) > 0 THEN last.candidatos[1] ELSE ""
        /\ last.selected_candidato # "" =>
              last.selected_candidato \in Elems(last.candidatos)

\* a supplied candidate that is not in the list is replaced by the default one
C9_Witness ==
    /\ IsCall("home_view")
    /\ last.args[3] = "PAES"
    /\ "PAES" \notin Elems(last.candidatos)
    /\ last.selected_candidato = DEFAULT_CANDIDATO

(* C10: home_view calls the aggregation, and renders a map, only when the  *)
(* resolved year, party and candidate are all three non-empty.             *)
C10_AggregationNeedsAllThree ==
    (IsCall("home_view") /\ (last.agg_called \/ last.map_url # "")) =>
        /\ last.selected_ano # ""
        /\ last.selected_partido # ""
        /\ last.selected_candidato # ""

(* C11: selection resolution in home_view is total: for every supplied,    *)
(* absent, empty or invalid year, party and candidate and every store it   *)
(* yields a value or the empty string for each field, and on an empty      *)
(* Record Store the three resolved values are empty and no map is rendered. *)
C11_ResolutionTotal ==
    IsCall("home_view") =>
        /\ last.selected_ano # NoneVal
        /\ last.selected_partido # NoneVal
        /\ last.selected_candidato # NoneVal
        /\ Len(store) = 0 =>
              /\ last.selected_ano = ""
              /\ last.selected_partido = ""
              /\ last.selected_candidato = ""
              /\ last.map_url = ""

AdminOps == {"clear_cache_view", "cache_stats_view"}

(* C14: an administrative request of a caller who is not a superuser is    *)
(* answered with status 403 and an error body and changes no cache entry   *)
(* and no file; an administrative request that empties a non-empty cache   *)
(* is a clear_cache_view of a superuser.                                   *)
C14_AdminDenied ==
    [][(tick' # tick /\ last'.op \in AdminOps) =>
          /\ ~last'.args[1] =>
                /\ last'.status = 403
                /\ last'.body = "error"
                /\ cache' = cache
                /\ files' = files
          /\ (cache # EmptyCache /\ cache' = EmptyCache) =>
                (last'.op = "clear_cache_view" /\ last'.args[1])]_vars

\* a denied clear that left two entries in the cache
C14_Witness ==
    /\ IsCall("clear_cache_view")
    /\ ~last.args[1]
    /\ last.status = 403
    /\ Len(cache) >= 2

\* the rendering of a map was reached during the last request and threw
RendererThrew ==
    /\ IsCall("home_view")
    /\ last.fault \in {"choropleth", "geojson_layer", "save"}
    /\ IF last.status = 200 THEN last.rendered
       ELSE last.raised \in {"fl.GeoJson", "mapa.save"}

(* C12: when the rendering step throws while a map is generated for a      *)
(* request, the request still completes with a page that has no map        *)
(* (status 200, empty map_url).                                            *)
C12_RendererFailureDegrades ==
    RendererThrew => (last.status = 200 /\ last.map_url = "")

(* C13: no failure escapes a request: whatever fails during home_view (a   *)
(* Record Store query, the boundary file, the rendering, the file write),  *)
(* the response is a page, not a server error.                             *)
C13_FailuresNeverEscape ==
    (IsCall("home_view") /\ last.fault # "none") => last.status = 200

(* C15: the request that follows a successful clear_cache_view recomputes  *)
(* everything it uses: each list and the aggregation are queried from the  *)
(* Record Store, and a map it shows has been rendered by that request.     *)
C15_ClearForcesRecompute ==
    [][(/\ tick' # tick
        /\ last.op = "clear_cache_view"
        /\ last.status = 200
        /\ last'.op = "home_view")
       => /\ last'.queries = 3 + (IF last'.agg_called THEN 1 ELSE 0)
          /\ last'.map_url # "" => last'.rendered]_vars

\* the mapping a dict holds, whatever the insertion order of its items
AsDict(items) == [k \in ItemKeys(items) |-> DictGet(items, k, 0)]

SameInputs(p, q) ==
    /\ AsDict(procs[p].votos_dict) = AsDict(procs[q].votos_dict)
    /\ procs[p].total_votos = procs[q].total_votos
    /\ procs[p].candidato_info = procs[q].candidato_info

StaticDone(p) == procs[p].fn = "static" /\ procs[p].pc = "done"

(* C16: two calls of generate_static_map_html with equal mapping, total    *)
(* and info return the same URL, whatever the insertion order of the       *)
(* mapping's items; and a call that finds the file of its fingerprint      *)
(* returns at once, having rendered nothing and left every file unchanged. *)
C16_ArtifactIdempotent ==
    /\ [](\A p, q \in GenProcs :
            (StaticDone(p) /\ StaticDone(q) /\ SameInputs(p, q)) =>
                procs[p].url = procs[q].url)
    /\ [][\A p \in GenProcs :
            (/\ GenStep(p, "static", "check")
             /\ procs'[p] # procs[p]
             /\ GenFileName(p) \in DOMAIN files)
            => /\ procs'[p].pc = "done"
               /\ ~procs'[p].rendered
               /\ procs'[p].html = <<>>
               /\ files' = files]_vars

\* the second call found the file the first had written for the same
\* mapping inserted in the other order
C16_Witness ==
    /\ StaticDone(1) /\ StaticDone(2)
    /\ SameInputs(1, 2)
    /\ Len(procs[1].votos_dict) = 2
    /\ procs[1].votos_dict # procs[2].votos_dict
    /\ procs[1].rendered /\ ~procs[2].rendered
    /\ procs[1].url = procs[2].url

TooltipBlocks(p) ==
    {procs[p].html[i] : i \in {j \in DOMAIN procs[p].html :
                                  "porcentagem" \in DOMAIN procs[p].html[j]}}

(* C20: in the page built by either generator, the percentage of every     *)
(* neighbourhood is 0 when the total is 0, and votos/total*100 when the    *)
(* total is positive.                                                      *)
C20_Percentage ==
    \A p \in GenProcs : \A t \in TooltipBlocks(p) :
        LET votos == DictGet(procs[p].votos_dict, t.bairro, 0)
            total == procs[p].total_votos
        IN  /\ t.votos = votos
            /\ IF total = 0 THEN t.porcentagem = Fraction(0, 1)
               ELSE /\ t.porcentagem.den > 0
                    /\ t.porcentagem.num * total = votos * 100 * t.porcentagem.den

\* both generators have built a page for a total of 0 with votes in it
C20_Witness ==
    /\ procs[1].fn = "optimized" /\ procs[1].pc = "done"
    /\ StaticDone(2) /\ procs[2].rendered
    /\ \A p \in GenProcs :
          /\ procs[p].total_votos = 0
          /\ \E t \in TooltipBlocks(p) :
                t.votos > 0 /\ t.porcentagem = Fraction(0, 1)

\* what the call returns when it runs alone on an empty cache
SequentialCall(call) ==
    IF call.fn = "get_cached_partidos"
    THEN get_cached_partidos(EmptyCache, store, call.args[1]).val
    ELSE get_complete_candidate_data(EmptyCache, store, call.args[1],
                                     call.args[2], call.args[3]).val

\* what calls made one after the other can return for a key, and leave in
\* the cache under it: the whole result of one computation for that key
Sequential(k) ==
    {SequentialCall(call) : call \in {c \in ConcCalls : ConcKey(c) = k}}

CompleteKeys ==
    {ConcKey(c) : c \in {x \in ConcCalls : x.fn = "get_complete_candidate_data"}}

CachedOps == ListOps \cup {"get_complete_candidate_data"}

\* the cache key a recorded call of a cached function used
CachedKey(l) ==
    IF l.op = "get_complete_candidate_data"
    THEN CompleteKey(l.args[1], l.args[2], l.args[3])
    ELSE CallKey(l)

\* what the recorded call returns when computed from the store st
Fresh(l, st) ==
    IF l.op = "get_cached_anos" THEN QueryAnos(st)
    ELSE IF l.op = "get_cached_partidos" THEN QueryPartidos(st, l.args[1])
    ELSE IF l.op = "get_cached_candidatos"
    THEN QueryCandidatos(st, l.args[1], l.args[2])
    ELSE LET dados == QueryDados(st, l.args[1], l.args[2], l.args[3])
         IN  IF Len(dados) = 0 THEN NoData
             ELSE CompleteData(dados, l.args[3])

(* C19: a call of a cached function whose entry is gone (expired, cleared  *)
(* or never stored) queries the Record Store as it is now, returns that    *)
(* result and leaves it, whole, as the entry of its key (None is returned  *)
(* and leaves no entry); so a result older than the store is served only   *)
(* while its entry lasts.                                                  *)
C19_FreshAfterExpiry ==
    [][(/\ tick' # tick
        /\ last'.op \in CachedOps
        /\ CachedKey(last') \notin Keys(cache))
       => /\ last'.queries = 1
          /\ last'.result = Fresh(last', store)
          /\ IF last'.op = "get_complete_candidate_data" /\ last'.result = NoData
             THEN CachedKey(last') \notin Keys(cache')
             ELSE /\ CachedKey(last') \in Keys(cache')
                  /\ cache_value(cache', CachedKey(last')) = last'.result]_vars

\* the party list has just been recomputed from the changed store, while
\* the year list still held is the one of the store as it was
C19_Witness ==
    /\ IsCall("get_cached_partidos")
    /\ last.queries = 1
    /\ last.result = <<"PRB", "PSD">>
    /\ "anos_eleicao" \in Keys(cache)
    /\ cache_value(cache, "anos_eleicao") = <<>>

\* the matching rows of the last call whose vote count is not a number
NullRows(rows) == SelectSeq(rows, LAMBDA r : r.qt_votos = NullVotos)

NumericRows(rows) == SelectSeq(rows, LAMBDA r : r.qt_votos # NullVotos)

(* C21: in the result get_complete_candidate_data computes, a matching row *)
(* whose vote count is None or not a number adds 0 to its neighbourhood    *)
(* and to the total while its neighbourhood is a key of the mapping, every *)
(* numeric vote count adds its integer value, and a result is returned.    *)
C21_NonNumericCountsZero ==
    (IsCall("get_complete_candidate_data") /\ last.queries = 1) =>
        LET rows == MatchingRows(last.args[1], last.args[2], last.args[3])
            num  == NumericRows(rows)
            Sum(rs) == SumSeq([i \in DOMAIN rs |-> rs[i].qt_votos[1]])
        IN  Len(rows) > 0 =>
              /\ last.result # NoData
              /\ \A i \in DOMAIN rows :
                    rows[i].nm_bairro \in DOMAIN last.result.votos_dict
              /\ \A b \in DOMAIN last.result.votos_dict :
                    last.result.votos_dict[b] =
                        Sum(SelectSeq(num, LAMBDA r : r.nm_bairro = b))
              /\ last.result.total_votos = Sum(num)

\* a neighbourhood whose only row has no number is a key with 0 votes, next
\* to a neighbourhood with numeric rows
C21_Witness ==
    /\ IsCall("get_complete_candidate_data")
    /\ last.queries = 1
    /\ Len(NullRows(MatchingRows(last.args[1], last.args[2], last.args[3]))) = 1
    /\ last.result # NoData
    /\ last.result.votos_dict = ("Centro" :> 0 @@ "ZonaSul" :> 2)
    /\ last.result.total_votos = 2

(* C23: every entry of the cache under a complete_data key has a non-empty *)
(* votos_dict, a total_votos equal to the sum of the values of votos_dict  *)
(* and a candidato_info.votos_total equal to total_votos; None is never an *)
(* entry.                                                                  *)
C23_CompleteDataEntries ==
    \A i \in DOMAIN cache :
        LET cached_data == cache[i].val
        IN  /\ cached_data # NoData
            /\ DOMAIN cached_data.votos_dict # {}
            /\ cached_data.total_votos = SumDict(cached_data.votos_dict)
            /\ cached_data.candidato_info.votos_total = cached_data.total_votos

\* None has just been returned for one candidate while the cache holds the
\* entry of the other, summed over two neighbourhoods
C23_Witness ==
    /\ IsCall("get_complete_candidate_data")
    /\ last.queries = 1
    /\ last.result = NoData
    /\ Len(cache) = 1
    /\ cache[1].val.total_votos = 3
    /\ DOMAIN cache[1].val.votos_dict = Bairros

(* C22: the list get_cached_partidos(ano) or get_cached_candidatos(partido, *)
(* ano) returns is the result of the store query for exactly those         *)
(* arguments, never one stored by a call with other arguments.             *)
C22_KeysDoNotMix ==
    (last.op \in {"get_cached_partidos", "get_cached_candidatos"}) =>
        last.result = Fresh(last, store)

(***************************************************************************)
(* The AJAX endpoints.  Each view is wrapped in cache_page, which keeps    *)
(* the response of a URL in the default cache under two entries: the list  *)
(* of Vary headers of the URL (empty here) and the response itself.        *)
(***************************************************************************)

\* a JsonResponse: the dictionary it carries, the cache after the view ran
\* and the number of queries the view issued
JsonResponse(c, data, n) == Outcome(c, data, n)

get_anos_ajax(c, st) ==
    LET anos == get_cached_anos(c, st)
    IN  JsonResponse(anos.cache, [anos |-> anos.val], anos.q)

get_candidatos_ajax(c, st, partido, ano) ==
    IF ~Truthy(partido)
    THEN JsonResponse(c, [candidatos |-> <<>>], 0)
    ELSE LET candidatos == get_cached_candidatos(c, st, partido, ano)
         IN  JsonResponse(candidatos.cache, [candidatos |-> candidatos.val],
                          candidatos.q)

get_partidos_ajax(c, st, ano) ==
    IF ~Truthy(ano)
    THEN JsonResponse(c, [partidos |-> <<>>], 0)
    ELSE LET partidos == get_cached_partidos(c, st, ano)
         IN  JsonResponse(partidos.cache, [partidos |-> partidos.val],
                          partidos.q)

\* the three entries of the dictionary are evaluated in the order written
get_filter_data_ajax(c, st, ano, partido) ==
    LET partidos   == IF Truthy(ano)
                      THEN get_cached_partidos(c, st, ano)
                      ELSE Outcome(c, <<>>, 0)
        candidatos == IF Truthy(partido) /\ Truthy(ano)
                      THEN get_cached_candidatos(partidos.cache, st, partido, ano)
                      ELSE Outcome(partidos.cache, <<>>, 0)
        anos       == get_cached_anos(candidatos.cache, st)
    IN  JsonResponse(anos.cache,
                     [partidos |-> partidos.val, candidatos |-> candidatos.val,
                      anos |-> anos.val],
                     partidos.q + candidatos.q + anos.q)

\* the URL of a request: the path and the parameters that are present
RequestUrl(path, ano, partido) ==
    path \o "/?"
         \o (IF ano = NoneVal THEN "" ELSE "ano=" \o ano \o "&")
         \o (IF partido = NoneVal THEN "" ELSE "partido=" \o partido)

HeaderKey(url) == "views.decorators.cache.cache_header." \o MD5(url)
PageKey(url)   == "views.decorators.cache.cache_page.GET." \o MD5(url)

\* the response of the view is stored: the header list, then the response
CachePageStore(url, response) ==
    [cache |-> cache_set(cache_set(response.cache, HeaderKey(url), <<>>),
                         PageKey(url), response.val),
     val |-> response.val, q |-> response.q, hit |-> FALSE]

\* the look-up cache_page makes before the view: the header list of the
\* URL, then the stored response
FetchFromCache(c, url) ==
    IF cache_miss(c, HeaderKey(url))
    THEN [cache |-> c, val |-> NoneVal, q |-> 0, hit |-> FALSE]
    ELSE LET c1 == cache_touch(c, HeaderKey(url))
         IN  IF cache_miss(c1, PageKey(url))
             THEN [cache |-> c1, val |-> NoneVal, q |-> 0, hit |-> FALSE]
             ELSE [cache |-> cache_touch(c1, PageKey(url)),
                   val |-> cache_value(c1, PageKey(url)), q |-> 0, hit |-> TRUE]

\* cache_page(timeout)(view): response is what the view returns when run on
\* the cache the look-up left
cache_page(fetched, url, response) ==
    IF fetched.hit THEN fetched ELSE CachePageStore(url, response)

\* what a request to an endpoint did
AjaxResult(path, ano, partido, o) ==
    [op |-> path, args |-> <<ano, partido>>, status |-> 200, data |-> o.val,
     queries |-> o.q, hit |-> o.hit]

RequestAnos ==
    \E url \in {RequestUrl("get_anos_ajax", NoneVal, NoneVal)} :
    \E fetched \in {FetchFromCache(cache, url)} :
    \E o \in {cache_page(fetched, url, get_anos_ajax(fetched.cache, store))} :
        Return(o.cache, files, AjaxResult("get_anos_ajax", NoneVal, NoneVal, o))

RequestCandidatos(partido, ano) ==
    \E url \in {RequestUrl("get_candidatos_ajax", ano, partido)} :
    \E fetched \in {FetchFromCache(cache, url)} :
    \E o \in {cache_page(fetched, url, get_candidatos_ajax(fetched.cache, store, partido, ano))} :
        Return(o.cache, files, AjaxResult("get_candidatos_ajax", ano, partido, o))

RequestPartidos(ano) ==
    \E url \in {RequestUrl("get_partidos_ajax", ano, NoneVal)} :
    \E fetched \in {FetchFromCache(cache, url)} :
    \E o \in {cache_page(fetched, url, get_partidos_ajax(fetched.cache, store, ano))} :
        Return(o.cache, files, AjaxResult("get_partidos_ajax", ano, NoneVal, o))

RequestFilterData(ano, partido) ==
    \E url \in {RequestUrl("get_filter_data_ajax", ano, partido)} :
    \E fetched \in {FetchFromCache(cache, url)} :
    \E o \in {cache_page(fetched, url, get_filter_data_ajax(fetched.cache, store, ano, partido))} :
        Return(o.cache, files, AjaxResult("get_filter_data_ajax", ano, partido, o))

\* values of the 'ano' and 'partido' parameters of the AJAX requests
AjaxAnos     == {NoneVal, "", "2024"}
AjaxPartidos == {NoneVal, "", "PSD"}

NextAjax ==
    \/ RequestAnos
    \/ \E partido \in AjaxPartidos, ano \in AjaxAnos :
          RequestCandidatos(partido, ano)
    \/ \E ano \in AjaxAnos : RequestPartidos(ano)
    \/ \E ano \in AjaxAnos, partido \in AjaxPartidos :
          RequestFilterData(ano, partido)
    \/ \E k \in Keys(cache) : Expire(k)

SpecAjax == Init /\ [][NextAjax]_vars

\* the page generate_static_map_html writes for the inputs of request p
FullPage(p) ==
    Html(RenderMap(procs[p].votos_dict, procs[p].total_votos, GeoJson, TRUE))

(* C24: whenever a call of generate_static_map_html returns its URL, the   *)
(* file of that URL holds the whole page, also while another request is    *)
(* generating the same file.                                               *)
C24_ReturnedFileIsComplete ==
    [][\A p \in GenProcs :
          (/\ procs[p].fn = "static"
           /\ procs[p].pc # "done"
           /\ procs'[p].pc = "done")
          => /\ GenFileName(p) \in DOMAIN files'
             /\ files'[GenFileName(p)] = FullPage(p)]_vars

(* C25: every map file that has been written under a fingerprint name      *)
(* holds the full page, the choropleth layer and a tooltip per feature.    *)
C25_StoredFileHasChoropleth ==
    \A file_name \in DOMAIN files :
        files[file_name] # EmptyFile =>
            /\ Len(files[file_name]) = 1 + Len(GeoJson)
            /\ files[file_name][1] = [layer |-> "choropleth"]

(* C26: a response computed by get_filter_data_ajax carries the lists that *)
(* get_anos_ajax, get_partidos_ajax and get_candidatos_ajax compute for    *)
(* the same parameters from the same store and cache.                      *)
C26_UnifiedAgreesWithSingle ==
    [][(last'.op = "get_filter_data_ajax" /\ tick' # tick /\ ~last'.hit) =>
          LET ano     == last'.args[1]
              partido == last'.args[2]
          IN  /\ last'.data.anos = get_anos_ajax(cache, store).val.anos
              /\ last'.data.partidos =
                     get_partidos_ajax(cache, store, ano).val.partidos
              /\ last'.data.candidatos =
                     get_candidatos_ajax(cache, store, partido, ano).val.candidatos
      ]_vars

====
